---- MODULE Spec2Model ----
(***************************************************************************)
(* The adjust.com collector (collectors/adjust.py): one linear pipeline    *)
(*   connect -> merge_apps (collect_app per app) -> write_to_file -> load  *)
(* run as a fresh process per invocation against a filesystem and a        *)
(* warehouse table that persist between invocations.                       *)
(*                                                                         *)
(* CSV text is modelled as sequences of lines, a line as a tuple of cell   *)
(* texts.  A data frame is a sequence of rows                              *)
(*   <<adj_date, os, daus, waus, maus, installs, app>>                     *)
(* whose installs cell is an integer and whose other cells are kept as the *)
(* text pandas read (and writes back unchanged).                           *)
(***************************************************************************)
EXTENDS Integers, Sequences, FiniteSets, TLC

VARIABLES
    apps,         \* settings['adjust']['apps']: the mapping, in iteration order, as <<name, key>> entries
    pc,           \* position of the current invocation of adjust_cmd
    raised,       \* which step of the current invocation raised ("none" when none did)
    i,            \* merge_apps: index of the next entry of the mapping
    frames,       \* merge_apps: the list `frames`
    df,           \* collect: the merged frame, <<>> until merge_apps returned, then <<rows>>
    output_file,  \* adjust_cmd: the path collect returned ("" until then)
    dirs,         \* filesystem: the directories that exist (component sequences)
    files,        \* filesystem: path |-> lines of the file
    table,        \* warehouse: rows of the target table
    rowcount,     \* cursor.rowcount
    log,          \* records emitted by logger.info / logging.info in this invocation
    requests,     \* observed: <<app_name, url>> of every collect_app call of this invocation
    bodies,       \* observed: the response body each successful collect_app call received
    executed,     \* observed: <<statement, outcome>> of every cursor.execute of this invocation
    table0,       \* observed: table / files / dirs when this invocation started
    files0,
    dirs0,
    call,         \* arguments of a direct call of build_dau_url, <<>> when none
    ret           \* and its result

vars == <<apps, pc, raised, i, frames, df, output_file, dirs, files, table, rowcount,
          log, requests, bodies, executed, table0, files0, dirs0, call, ret>>

pipevars == <<apps, pc, raised, i, frames, df, output_file, dirs, files, table, rowcount,
              log, requests, bodies, executed, table0, files0, dirs0>>

----------------------------------------------------------------------------
(* Bounds of the model *)

MaxApps == 2      \* entries in the app mapping
MaxLines == 1     \* lines of an enumerated response body
MaxKeyLen == 2    \* characters of an enumerated app key / token

----------------------------------------------------------------------------
(* Strings *)

RECURSIVE Str(_)
\* the string whose characters are the sequence cs
Str(cs) == IF cs = <<>> THEN "" ELSE Head(cs) \o Str(Tail(cs))

RECURSIVE SeqsUpTo(_, _)
SeqsUpTo(S, n) ==
    IF n = 0 THEN {<<>>}
    ELSE LET shorter == SeqsUpTo(S, n - 1)
         IN  shorter \cup {Append(s, x) : s \in {t \in shorter : Len(t) = n - 1}, x \in S}

----------------------------------------------------------------------------
(* Settings (the docstring's example config) *)

Token == "tok"
LoadPath == <<"tmp", "adjust_daus">>
TableName == "adjust_daily_active_users"

AppNames == { <<"f">>, <<"f", "x">>, <<"k", "l">>, <<"f", "o", "x">> }

AppKey(name) ==
    CASE name = <<"f">> -> "k0"
      [] name = <<"f", "x">> -> "abc123"
      [] name = <<"k", "l">> -> "def456"
      [] OTHER -> "ghi789"

\* python dicts: distinct keys, iterated in insertion order
AppConfigs ==
    { [k \in 1..Len(ns) |-> <<ns[k], AppKey(ns[k])>>] :
        ns \in { s \in SeqsUpTo(AppNames, MaxApps) :
                   \A a, b \in 1..Len(s) : a # b => s[a] # s[b] } }

----------------------------------------------------------------------------
(* The adjust.com API: response bodies the HTTP GET can return *)

\* data lines [date, os, daus, waus, maus, installs]; RowB has no installs value
RowA == <<"2019-01-01", "android", "2", "3", "4", "1">>
RowB == <<"2019-01-01", "ios", "1", "1", "2", "">>
Lines == {RowA, RowB}

Body4 == <<RowA, RowA, RowB, RowA>>
Body6 == <<RowB, RowA, RowB, RowB, RowA, RowA>>
Bodies == SeqsUpTo(Lines, MaxLines) \cup {Body4, Body6}

----------------------------------------------------------------------------
(* build_dau_url *)

ADJUST_URL_BASE(app_key) == "https://api.adjust.com/kpis/v1/" \o app_key

\* build_dau_url with the key and the token in each other's place
build_dau_url_swapped(app_key, token) ==
    ADJUST_URL_BASE(token) \o ".csv" \o "?user_token=" \o app_key
        \o "&kpis=daus,waus,maus,installs&start_date=2000-01-01&end_date=2030-01-01"
        \o "&grouping=day,os_names&os_names=android,ios"

build_dau_url(app_key, token) ==
    LET u0 == ADJUST_URL_BASE(app_key)
        u1 == u0 \o ".csv"
        u2 == u1 \o ("?user_token=" \o token)
        u3 == u2 \o "&kpis=daus,waus,maus,installs"
        u4 == u3 \o "&start_date=2000-01-01"
        u5 == u4 \o "&end_date=2030-01-01"
        u6 == u5 \o "&grouping=day,os_names"
        u7 == u6 \o "&os_names=android,ios"
    IN  u7

----------------------------------------------------------------------------
(* collect_app: pandas on the response body *)

\* a parsed numeric cell: <<>> is NaN, <<n>> the number n
ParseNum(text) ==
    CASE text = ""  -> <<>>
      [] text = "0" -> <<0>>
      [] text = "1" -> <<1>>
      [] text = "2" -> <<2>>
      [] text = "3" -> <<3>>
      [] text = "4" -> <<4>>
      [] text = "5" -> <<5>>
      [] text = "6" -> <<6>>
      [] text = "7" -> <<7>>
      [] text = "8" -> <<8>>
      [] text = "9" -> <<9>>

\* pd.read_csv(url, sep=",", header=0, names=col_names): line 0 of the body is
\* the header row, which `names` replaces; the rows are the lines after it.
\* An empty body has no header row to read: EmptyDataError (ReadCsvRaises).
ReadCsvRaises(body) == body = <<>>

\* read_csv with header=None: every line is a row
ReadCsvNoHeader(body) == body

ReadCsv(body) == Tail(body)

\* fillna with a sentinel instead of the value asked for
FillnaSentinel(cell, value) == IF cell = <<>> THEN <<-1>> ELSE cell

\* Series.fillna(value)
Fillna(cell, value) == IF cell = <<>> THEN <<value>> ELSE cell

\* Series.astype(int) of a column that holds no NaN
AsInt(cell) == cell[1]

\* df['installs'] = df['installs'].fillna(0).astype(int); df['app'] = app_name
FrameRow(line, app_name) ==
    <<line[1], line[2], line[3], line[4], line[5],
      AsInt(Fillna(ParseNum(line[6]), 0)), app_name>>

collect_app(app_name, body) ==
    LET read == ReadCsv(body)
    IN  [j \in 1..Len(read) |-> FrameRow(read[j], app_name)]

----------------------------------------------------------------------------
(* merge_apps: pd.concat(frames) *)

RECURSIVE DropDuplicates(_)
DropDuplicates(rows) ==
    IF rows = <<>> THEN <<>>
    ELSE LET init == DropDuplicates(SubSeq(rows, 1, Len(rows) - 1))
             last == rows[Len(rows)]
         IN  IF \E j \in 1..Len(init) : init[j] = last THEN init ELSE Append(init, last)

RECURSIVE ConcatDedup(_)
\* pd.concat(frames).drop_duplicates()
ConcatDedup(fs) ==
    DropDuplicates(IF fs = <<>> THEN <<>> ELSE Head(fs) \o ConcatDedup(Tail(fs)))

RECURSIVE Concat(_)
Concat(fs) == IF fs = <<>> THEN <<>> ELSE Head(fs) \o Concat(Tail(fs))

----------------------------------------------------------------------------
(* write_to_file: DataFrame.to_csv(data_file, index=False) and os.path *)

ColNames == <<"adj_date", "os", "daus", "waus", "maus", "installs", "app">>

FormatInt(n) ==
    CASE n = 0 -> "0" [] n = 1 -> "1" [] n = 2 -> "2" [] n = 3 -> "3" [] n = 4 -> "4"
      [] n = 5 -> "5" [] n = 6 -> "6" [] n = 7 -> "7" [] n = 8 -> "8" [] n = 9 -> "9"
      [] n = -1 -> "-1"

FormatRow(row) ==
    <<row[1], row[2], row[3], row[4], row[5], FormatInt(row[6]), row[7]>>

FormatRows(rows) == [j \in 1..Len(rows) |-> FormatRow(rows[j])]

\* header row, then one line per row
ToCsv(rows) == <<ColNames>> \o FormatRows(rows)

RECURSIVE PathStr(_)
\* the absolute path of a directory given by its components
PathStr(comps) ==
    IF comps = <<>> THEN "" ELSE PathStr(SubSeq(comps, 1, Len(comps) - 1)) \o "/" \o comps[Len(comps)]

\* os.path.join(load_path, filename) for a relative filename
PathJoin(load_path, filename) == PathStr(load_path) \o "/" \o filename

\* os.path.exists(load_path)
PathExists(ds, load_path) == load_path \in ds

\* os.makedirs(load_path) raises FileExistsError when the directory exists
MakeDirsRaises(ds, load_path) == load_path \in ds

\* os.makedirs(load_path): the directory and every missing ancestor
MakeDirs(ds, load_path) == ds \cup { SubSeq(load_path, 1, n) : n \in 1..Len(load_path) }

WriteFile(fs, path, lines) ==
    [p \in DOMAIN fs \cup {path} |-> IF p = path THEN lines ELSE fs[p]]

----------------------------------------------------------------------------
(* State at the start of an invocation *)

\* rows the table may hold from before (none of them rows of this model's API data)
OldRows == << <<"2018-12-31", "android", "9", "9", "9", "9", "old">> >>

Init ==
    /\ apps \in AppConfigs
    /\ pc = "start"
    /\ raised = "none"
    /\ i = 1
    /\ frames = <<>>
    /\ df = <<>>
    /\ output_file = ""
    /\ dirs \in { {}, MakeDirs({}, SubSeq(LoadPath, 1, 1)), MakeDirs({}, LoadPath) }
    /\ files = <<>>
    /\ table \in { <<>>, OldRows }
    /\ rowcount = -1
    /\ log = <<>>
    /\ requests = <<>>
    /\ bodies = <<>>
    /\ executed = <<>>
    /\ table0 = table
    /\ files0 = files
    /\ dirs0 = dirs
    /\ call = <<>>
    /\ ret = ""

Raise(step) ==
    /\ raised' = step
    /\ pc' = "error"

----------------------------------------------------------------------------
(* adjust_cmd: connect *)

Connect ==
    /\ pc = "start"
    /\ pc' = "collect"
    /\ log' = Append(log, <<"Database connection established", "", 0>>)
    /\ UNCHANGED <<apps, raised, i, frames, df, output_file, dirs, files, table, rowcount,
                   requests, bodies, executed, table0, files0, dirs0, call, ret>>

ConnectRaises ==
    /\ pc = "start"
    /\ Raise("connect")
    /\ UNCHANGED <<apps, i, frames, df, output_file, dirs, files, table, rowcount, log,
                   requests, bodies, executed, table0, files0, dirs0, call, ret>>

----------------------------------------------------------------------------
(* merge_apps: `for app, key in iter(apps)` iterates the mapping's KEYS, the
   app names, and unpacks each name into (app, key): a name of two characters
   gives app = its first and key = its second character, any other name
   raises ValueError. *)

Unpacks(name) == Len(name) = 2

\* one iteration of the loop whose fetch succeeds
CollectApp(body) ==
    /\ pc = "collect"
    /\ i <= Len(apps)
    /\ Unpacks(apps[i][1])
    /\ ~ReadCsvRaises(body)
    /\ LET app == apps[i][1][1]
           key == apps[i][1][2]
           url == build_dau_url(key, Token)
       IN  /\ requests' = Append(requests, <<app, url>>)
           /\ bodies' = Append(bodies, body)
           /\ frames' = Append(frames, collect_app(app, body))
           /\ log' = Append(log, <<"collected", app, 0>>)
    /\ i' = i + 1
    /\ UNCHANGED <<apps, pc, raised, df, output_file, dirs, files, table, rowcount,
                   executed, table0, files0, dirs0, call, ret>>

\* a loop that catches the failed fetch and goes on to the next app
FetchSuppressed ==
    /\ pc = "collect"
    /\ i <= Len(apps)
    /\ Unpacks(apps[i][1])
    /\ requests' = Append(requests, <<apps[i][1][1], build_dau_url(apps[i][1][2], Token)>>)
    /\ raised' = "fetch"
    /\ i' = i + 1
    /\ UNCHANGED <<apps, pc, frames, df, output_file, dirs, files, table, rowcount, log,
                   bodies, executed, table0, files0, dirs0, call, ret>>

\* one iteration whose fetch fails: the GET fails, or the body is empty
FetchRaises ==
    /\ pc = "collect"
    /\ i <= Len(apps)
    /\ Unpacks(apps[i][1])
    /\ LET app == apps[i][1][1]
           key == apps[i][1][2]
       IN  requests' = Append(requests, <<app, build_dau_url(key, Token)>>)
    /\ Raise("fetch")
    /\ UNCHANGED <<apps, i, frames, df, output_file, dirs, files, table, rowcount, log,
                   bodies, executed, table0, files0, dirs0, call, ret>>

UnpackRaises ==
    /\ pc = "collect"
    /\ i <= Len(apps)
    /\ ~Unpacks(apps[i][1])
    /\ Raise("unpack")
    /\ UNCHANGED <<apps, i, frames, df, output_file, dirs, files, table, rowcount, log,
                   requests, bodies, executed, table0, files0, dirs0, call, ret>>

\* pd.concat(frames) of a non-empty list; merge_apps returns
MergeReturns ==
    /\ pc = "collect"
    /\ i > Len(apps)
    /\ frames # <<>>
    /\ df' = <<Concat(frames)>>
    /\ pc' = "write"
    /\ UNCHANGED <<apps, raised, i, frames, output_file, dirs, files, table, rowcount, log,
                   requests, bodies, executed, table0, files0, dirs0, call, ret>>

\* pd.concat([]) raises ValueError("No objects to concatenate")
ConcatRaises ==
    /\ pc = "collect"
    /\ i > Len(apps)
    /\ frames = <<>>
    /\ Raise("concat")
    /\ UNCHANGED <<apps, i, frames, df, output_file, dirs, files, table, rowcount, log,
                   requests, bodies, executed, table0, files0, dirs0, call, ret>>

----------------------------------------------------------------------------
(* write_to_file(df, load_path, filename="output.csv") *)

\* write_to_file that calls os.makedirs without asking whether the directory exists
WriteToFileNoCheck ==
    /\ pc = "write"
    /\ IF MakeDirsRaises(dirs, LoadPath)
       THEN /\ Raise("write")
            /\ UNCHANGED <<dirs, files, output_file>>
       ELSE /\ dirs' = MakeDirs(dirs, LoadPath)
            /\ files' = WriteFile(files, PathJoin(LoadPath, "output.csv"), ToCsv(df[1]))
            /\ output_file' = PathJoin(LoadPath, "output.csv")
            /\ pc' = "truncate"
            /\ UNCHANGED raised
    /\ UNCHANGED <<apps, i, frames, df, table, rowcount, log,
                   requests, bodies, executed, table0, files0, dirs0, call, ret>>

WriteToFile ==
    /\ pc = "write"
    /\ LET data_file == PathJoin(LoadPath, "output.csv")
           create == ~PathExists(dirs, LoadPath)
       IN  IF create /\ MakeDirsRaises(dirs, LoadPath)
           THEN /\ Raise("write")
                /\ UNCHANGED <<dirs, files, output_file>>
           ELSE /\ dirs' = IF create THEN MakeDirs(dirs, LoadPath) ELSE dirs
                /\ files' = WriteFile(files, data_file, ToCsv(df[1]))
                /\ output_file' = data_file
                /\ pc' = "truncate"
                /\ UNCHANGED raised
    /\ UNCHANGED <<apps, i, frames, df, table, rowcount, log,
                   requests, bodies, executed, table0, files0, dirs0, call, ret>>

----------------------------------------------------------------------------
(* load(cursor, table, data_file, reject_file, exception_file).
   The warehouse commits TRUNCATE TABLE when it executes; COPY ... ABORT ON
   ERROR loads every line after the SKIPped first one, or none. *)

\* load that never issues the TRUNCATE statement
TruncateSkipped ==
    /\ pc = "truncate"
    /\ executed' = Append(executed, <<"TRUNCATE", "ok">>)
    /\ pc' = "copy"
    /\ UNCHANGED <<apps, raised, i, frames, df, output_file, dirs, files, table, rowcount, log,
                   requests, bodies, table0, files0, dirs0, call, ret>>

TruncateOk ==
    /\ pc = "truncate"
    /\ table' = <<>>
    /\ executed' = Append(executed, <<"TRUNCATE", "ok">>)
    /\ pc' = "copy"
    /\ UNCHANGED <<apps, raised, i, frames, df, output_file, dirs, files, rowcount, log,
                   requests, bodies, table0, files0, dirs0, call, ret>>

\* load that catches the error of TRUNCATE and goes on to COPY
TruncateSwallowed ==
    /\ pc = "truncate"
    /\ executed' = Append(executed, <<"TRUNCATE", "error">>)
    /\ pc' = "copy"
    /\ UNCHANGED <<apps, raised, i, frames, df, output_file, dirs, files, table, rowcount, log,
                   requests, bodies, table0, files0, dirs0, call, ret>>

TruncateRaises ==
    /\ pc = "truncate"
    /\ executed' = Append(executed, <<"TRUNCATE", "error">>)
    /\ Raise("truncate")
    /\ UNCHANGED <<apps, i, frames, df, output_file, dirs, files, table, rowcount, log,
                   requests, bodies, table0, files0, dirs0, call, ret>>

\* COPY succeeds, then logger.info("Completed loading ...")
CopyOk ==
    /\ pc = "copy"
    /\ output_file \in DOMAIN files
    /\ LET data == files[output_file]
           loaded == IF data = <<>> THEN <<>> ELSE Tail(data)
       IN  /\ table' = table \o loaded
           /\ rowcount' = Len(loaded)
           /\ log' = Append(log, <<"Completed loading", TableName, Len(loaded)>>)
    /\ executed' = Append(executed, <<"COPY", "ok">>)
    /\ pc' = "done"
    /\ UNCHANGED <<apps, raised, i, frames, df, output_file, dirs, files,
                   requests, bodies, table0, files0, dirs0, call, ret>>

\* load inside one transaction: the failed COPY rolls the TRUNCATE back
CopyRollsBack ==
    /\ pc = "copy"
    /\ executed' = Append(executed, <<"COPY", "error">>)
    /\ table' = table0
    /\ Raise("copy")
    /\ UNCHANGED <<apps, i, frames, df, output_file, dirs, files, rowcount, log,
                   requests, bodies, table0, files0, dirs0, call, ret>>

CopyRaises ==
    /\ pc = "copy"
    /\ executed' = Append(executed, <<"COPY", "error">>)
    /\ Raise("copy")
    /\ UNCHANGED <<apps, i, frames, df, output_file, dirs, files, table, rowcount, log,
                   requests, bodies, table0, files0, dirs0, call, ret>>

----------------------------------------------------------------------------
(* The next invocation: a fresh process on the same filesystem and warehouse *)

NewRun ==
    /\ pc \in {"done", "error"}
    /\ pc' = "start"
    /\ raised' = "none"
    /\ i' = 1
    /\ frames' = <<>>
    /\ df' = <<>>
    /\ output_file' = ""
    /\ rowcount' = -1
    /\ log' = <<>>
    /\ requests' = <<>>
    /\ bodies' = <<>>
    /\ executed' = <<>>
    /\ table0' = table
    /\ files0' = files
    /\ dirs0' = dirs
    /\ UNCHANGED <<apps, dirs, files, table, call, ret>>

Next ==
    \/ Connect
    \/ ConnectRaises
    \/ \E body \in Bodies : CollectApp(body)
    \/ FetchRaises
    \/ UnpackRaises
    \/ MergeReturns
    \/ ConcatRaises
    \/ WriteToFile
    \/ TruncateOk
    \/ TruncateRaises
    \/ CopyOk
    \/ CopyRaises
    \/ NewRun

Spec == Init /\ [][Next]_vars

----------------------------------------------------------------------------
(* build_dau_url called directly on enumerated keys and tokens *)

KeyChars == {"a", "1"}
Keys == {Str(cs) : cs \in SeqsUpTo(KeyChars, MaxKeyLen)} \cup {"abc123"}
Tokens == {Str(cs) : cs \in SeqsUpTo(KeyChars, MaxKeyLen)} \cup {"tok"}

InitUrl ==
    /\ apps = <<>>
    /\ pc = "start"
    /\ raised = "none"
    /\ i = 1
    /\ frames = <<>>
    /\ df = <<>>
    /\ output_file = ""
    /\ dirs = {}
    /\ files = <<>>
    /\ table = <<>>
    /\ rowcount = -1
    /\ log = <<>>
    /\ requests = <<>>
    /\ bodies = <<>>
    /\ executed = <<>>
    /\ table0 = table
    /\ files0 = files
    /\ dirs0 = dirs
    /\ call \in {<<k, t>> : k \in Keys, t \in Tokens}
    /\ ret = ""

BuildDauUrl ==
    /\ call # <<>>
    /\ ret = ""
    /\ ret' = build_dau_url(call[1], call[2])
    /\ UNCHANGED <<pipevars, call>>

NextUrl == BuildDauUrl

SpecUrl == InitUrl /\ [][NextUrl]_vars

----------------------------------------------------------------------------
(* Properties *)

RECURSIVE SumLen(_)
SumLen(fs) == IF fs = <<>> THEN 0 ELSE Len(Head(fs)) + SumLen(Tail(fs))

\* rows of the merged frame that precede the rows of frame k
Offset(k) == SumLen(SubSeq(frames, 1, k - 1))

Logged(kind) == \E n \in 1..Len(log) : log[n][1] = kind

\* C1: when the COPY statement of load raises, the TRUNCATE statement was
\* executed before it and is not undone: the invocation ends in the error
\* with the table empty, whatever rows the table held.
C1_FailedLoadLeavesTableEmpty ==
    raised = "copy" =>
        /\ pc = "error"
        /\ executed = << <<"TRUNCATE", "ok">>, <<"COPY", "error">> >>
        /\ table = <<>>

C1_Witness == raised = "copy" /\ table0 # <<>> /\ table = <<>>

\* C2: for every app mapping merge_apps raises nothing of its own, calls the
\* Fetcher once per entry with that entry's name and key, and returns a table
\* with as many rows as were fetched, each carrying the name of its app.
C2_MergeCallsFetcherPerEntry ==
    /\ raised \notin {"unpack", "concat"}
    /\ df # <<>> =>
        /\ requests = [k \in 1..Len(apps) |->
                          <<Str(apps[k][1]), build_dau_url(apps[k][2], Token)>>]
        /\ Len(df[1]) = SumLen(frames)
        /\ \A k \in 1..Len(frames) : \A j \in 1..Len(frames[k]) :
              df[1][Offset(k) + j][7] = Str(apps[k][1])

\* C3: the table merge_apps returns is the frames in the order they were
\* fetched, each frame's rows in their order, nothing dropped; two frames of
\* 3 and 5 rows give 8 rows, the 3 first.
C3_MergedKeepsOrder ==
    df # <<>> =>
        /\ Len(df[1]) = SumLen(frames)
        /\ \A k \in 1..Len(frames) : \A j \in 1..Len(frames[k]) :
              /\ df[1][Offset(k) + j] = frames[k][j]
              /\ frames[k][j][7] = requests[k][1]
        /\ (Len(frames) = 2 /\ Len(frames[1]) = 3 /\ Len(frames[2]) = 5) =>
              /\ Len(df[1]) = 8
              /\ SubSeq(df[1], 1, 3) = frames[1]
              /\ SubSeq(df[1], 4, 8) = frames[2]

C3_Witness ==
    /\ df # <<>>
    /\ Len(frames) = 2 /\ Len(frames[1]) = 3 /\ Len(frames[2]) = 5
    /\ Len(df[1]) = 8

\* C4: once the fetch of an app has failed the invocation is over with that
\* error: no merged table, no file written, no statement executed, the table
\* as it was.
C4_FetchFailureAborts ==
    raised = "fetch" =>
        /\ pc = "error"
        /\ df = <<>>
        /\ output_file = ""
        /\ files = files0
        /\ dirs = dirs0
        /\ executed = <<>>
        /\ table = table0

C4_Witness == raised = "fetch" /\ frames # <<>> /\ table0 # <<>> /\ pc = "error"

C6_OneRowPerLine ==
    \A k \in 1..Len(frames) :
        /\ Len(frames[k]) = Len(bodies[k])
        /\ \A j \in 1..Len(frames[k]) :
              \A c \in 1..5 : frames[k][j][c] = bodies[k][j][c]

\* C6 amended: collect_app reads the first line of the response as a header
\* row and drops it; a response of n >= 1 lines gives n - 1 rows, row j
\* carrying line j + 1: its first five values, its installs as an integer
\* (0 when missing), and the app name.
C6_FirstLineIsHeader ==
    \A k \in 1..Len(frames) :
        /\ Len(frames[k]) = Len(bodies[k]) - 1
        /\ \A j \in 1..Len(frames[k]) :
              /\ \A c \in 1..5 : frames[k][j][c] = bodies[k][j + 1][c]
              /\ IF bodies[k][j + 1][6] = ""
                 THEN frames[k][j][6] = 0
                 ELSE FormatInt(frames[k][j][6]) = bodies[k][j + 1][6]
              /\ frames[k][j][7] = requests[k][1]

C6_Witness ==
    \E k \in 1..Len(frames) :
        Len(bodies[k]) = 4 /\ Len(frames[k]) = 3 /\ frames[k][1][2] = bodies[k][2][2]

\* C7: load executes TRUNCATE first and COPY second, COPY only after a
\* TRUNCATE that did not raise, and logs the load only after both succeeded.
C7_LoaderIsLinear ==
    /\ \A n \in 1..Len(executed) :
          /\ executed[n][1] = "TRUNCATE" => n = 1
          /\ executed[n][1] = "COPY" => (n = 2 /\ executed[1] = <<"TRUNCATE", "ok">>)
    /\ Logged("Completed loading") =>
          /\ executed = << <<"TRUNCATE", "ok">>, <<"COPY", "ok">> >>
          /\ raised = "none"

C7_Witness == Logged("Completed loading") /\ pc = "done" /\ Len(executed) = 2

\* C8: write_to_file never raises; once it returned, the directory and its
\* ancestors exist, the returned path is <load_path>/output.csv and the file
\* holds the header row followed by exactly the rows of this call's table,
\* whatever the file held before.
C8_WriteCreatesAndOverwrites ==
    /\ raised # "write"
    /\ (pc \in {"truncate", "copy", "done"} \/ raised \in {"truncate", "copy"}) =>
          /\ output_file = "/tmp/adjust_daus/output.csv"
          /\ <<"tmp">> \in dirs /\ <<"tmp", "adjust_daus">> \in dirs
          /\ output_file \in DOMAIN files
          /\ Len(files[output_file]) = Len(df[1]) + 1
          /\ files[output_file][1] =
                <<"adj_date", "os", "daus", "waus", "maus", "installs", "app">>
          /\ \A j \in 1..Len(df[1]) : files[output_file][j + 1] = FormatRow(df[1][j])

C8_Witness ==
    /\ pc = "truncate"
    /\ output_file \in DOMAIN files0
    /\ Len(files0[output_file]) > Len(files[output_file])
    /\ LoadPath \in dirs0

\* C9: build_dau_url puts the key in the path before ".csv" and the token in
\* user_token, followed by the fixed parameters; for "abc123" and "tok" it is
\* exactly the documented URL.
C9_UrlShape ==
    ret # "" =>
        /\ ret = "https://api.adjust.com/kpis/v1/" \o call[1] \o ".csv?user_token=" \o call[2]
                 \o "&kpis=daus,waus,maus,installs&start_date=2000-01-01&end_date=2030-01-01&grouping=day,os_names&os_names=android,ios"
        /\ (call = <<"abc123", "tok">>) =>
              ret = "https://api.adjust.com/kpis/v1/abc123.csv?user_token=tok&kpis=daus,waus,maus,installs&start_date=2000-01-01&end_date=2030-01-01&grouping=day,os_names&os_names=android,ios"

C9_Witness ==
    /\ call = <<"abc123", "tok">>
    /\ ret = "https://api.adjust.com/kpis/v1/abc123.csv?user_token=tok&kpis=daus,waus,maus,installs&start_date=2000-01-01&end_date=2030-01-01&grouping=day,os_names&os_names=android,ios"

\* C10: after an invocation that completed, the table holds exactly the rows
\* of this invocation's merged table (the output file's lines after the
\* header), whatever it held before.
C10_LoadIsFullReplace ==
    pc = "done" =>
        /\ Len(table) = Len(df[1])
        /\ \A j \in 1..Len(table) :
              /\ table[j] = FormatRow(df[1][j])
              /\ table[j] = files[output_file][j + 1]

C10_Witness ==
    /\ pc = "done"
    /\ table0 # <<>>
    /\ table # <<>>
    /\ table # table0
    /\ output_file \in DOMAIN files0

====
